---- MODULE Spec2Model ----
(***************************************************************************)
(* Model of rust-native/src/tlsnotary.rs: the orchestration of one         *)
(* TLS-notarization session by prove() and the local Notary run_notary().  *)
(* The external crates (tokio, hyper, tlsn) appear through the contracts   *)
(* the orchestration relies on: spawn/join, the in-memory duplex, the      *)
(* limit checks of the MPC-TLS engine and the Notary's config validator.   *)
(***************************************************************************)
EXTENDS Integers, Sequences, FiniteSets, TLC

(* ---------------- bounds of the model ---------------- *)
NumSessions == 2        \* calls of prove() made in one process
MaxChunks == 3          \* records in which the server's response arrives

Sessions == 1..NumSessions

(* ---------------- program constants ---------------- *)
MAX_SENT_DATA == 4096           \* 1 << 12
MAX_RECV_DATA == 16384          \* 1 << 14
ProverMaxSent == 1024           \* .max_sent_data(1024)
ProverMaxRecv == 4096           \* .max_recv_data(4096)
StatusOK == 200                 \* StatusCode::OK
HeaderOverhead == 199           \* bytes of the request besides uri and domain

(* ---------------- inputs ---------------- *)
DomainLens == {11}                      \* "example.com"
UriLens == {1, 814, 815}                \* 199 + 11 + 814 = 1024
Statuses == {200, 404}
ChunkLens == {1000, 2048, 2049}         \* 2048 + 2048 = 4096
\* limits a build of the reference flow may configure (SpecCfg)
LimitSpace == [max_sent : {1024, 4096, 4097}, max_recv : {4096, 16384, 16385}]

VARIABLES
    limits,     \* the two literals given to ProtocolConfig::builder()
    loggerInit, \* the process-wide tracing subscriber is installed
    fs,         \* the two fixed-name artifact files
    pc,         \* position of prove() of each session
    outcome,    \* how prove() ended: "", "Ok", the error, or the panic
    reqLen,     \* length of the HTTP request of the session
    notary,     \* the task spawned at line 65
    ptask,      \* the task spawned at line 95 (prover_fut)
    htask,      \* the task spawned at line 102 (hyper connection)
    chanP,      \* prover_socket is alive
    chanN,      \* notary_socket is alive
    accepted,   \* the Notary validated the Prover's configuration
    nerr,       \* why the Notary task failed, "" while it has not
    sentLen,    \* transcript: bytes sent
    recvLen,    \* transcript: bytes received
    chunks,     \* response records received so far
    status,     \* status of the response, 0 while there is none
    exceeded,   \* the engine refused bytes over a limit
    afterExc,   \* bytes were added to the transcript after such a refusal
    started,    \* start_notarize() has run
    joined,     \* prover_task.await returned Ok
    commitSet,  \* transcript_commit() has run
    finCalls,   \* calls of finalize()
    finReq,     \* attestation request in flight to the Notary
    signed,     \* attestations the Notary signed for the session
    finRep,     \* attestation in flight to the Prover
    att,        \* attestation (with secrets) finalize() returned
    wroteAtt,   \* the session wrote example.attestation.tlsn
    wroteSec    \* the session wrote example.secrets.tlsn

vars == << limits, loggerInit, fs, pc, outcome, reqLen, notary, ptask, htask,
           chanP, chanN, accepted, nerr, sentLen, recvLen, chunks, status, exceeded,
           afterExc, started, joined, commitSet, finCalls, finReq, signed,
           finRep, att, wroteAtt, wroteSec >>

None == [sess |-> 0, sent |-> 0, recv |-> 0]

\* A file that does not exist.
NoFile == [kind |-> "none", of |-> None]

(* ---------------- pure helpers ---------------- *)

\* Request::builder() ... .body(): the request line and the five headers.
RequestLen(d, u) == HeaderOverhead + d + u

\* Mutation: the two limits given to the builder in the wrong order.
ProtocolConfigBuild_swapped(S, R) == [max_sent |-> R, max_recv |-> S]

\* ProtocolConfig::builder().max_sent_data(S).max_recv_data(R).build()
ProtocolConfigBuild(S, R) == [max_sent |-> S, max_recv |-> R]

\* The configuration the Prover is created with (Prover::new(config)).
ProverConfig == ProtocolConfigBuild(limits.max_sent, limits.max_recv)

\* Mutation: the two policy maxima given to the validator in the wrong order.
NotaryPolicy_swapped == [max_sent |-> MAX_RECV_DATA, max_recv |-> MAX_SENT_DATA]

\* ProtocolConfigValidator::builder().max_sent_data(..).max_recv_data(..)
NotaryPolicy == [max_sent |-> MAX_SENT_DATA, max_recv |-> MAX_RECV_DATA]

\* The validator of the Verifier: the proposed limits against the policy.
Validate(cfg, policy) ==
    cfg.max_sent <= policy.max_sent /\ cfg.max_recv <= policy.max_recv

\* The engine's transcript-length check before bytes enter the transcript.
WithinLimit(cur, len, max) == cur + len <= max

Running(t) == t = "running"
Ended(s) == pc[s] \in {"ok", "err", "panic"}
NotaryLive(s) == notary[s] \in {"validating", "mpc", "await_request"}

(* ---------------- initial state ---------------- *)

InitRest ==
    /\ loggerInit = FALSE
    /\ fs = [att |-> NoFile, sec |-> NoFile]
    /\ pc = [s \in Sessions |-> "idle"]
    /\ outcome = [s \in Sessions |-> ""]
    /\ reqLen = [s \in Sessions |-> 0]
    /\ notary = [s \in Sessions |-> "none"]
    /\ ptask = [s \in Sessions |-> "none"]
    /\ htask = [s \in Sessions |-> "none"]
    /\ chanP = [s \in Sessions |-> FALSE]
    /\ chanN = [s \in Sessions |-> FALSE]
    /\ accepted = [s \in Sessions |-> FALSE]
    /\ nerr = [s \in Sessions |-> ""]
    /\ sentLen = [s \in Sessions |-> 0]
    /\ recvLen = [s \in Sessions |-> 0]
    /\ chunks = [s \in Sessions |-> 0]
    /\ status = [s \in Sessions |-> 0]
    /\ exceeded = [s \in Sessions |-> FALSE]
    /\ afterExc = [s \in Sessions |-> FALSE]
    /\ started = [s \in Sessions |-> FALSE]
    /\ joined = [s \in Sessions |-> FALSE]
    /\ commitSet = [s \in Sessions |-> FALSE]
    /\ finCalls = [s \in Sessions |-> 0]
    /\ finReq = [s \in Sessions |-> None]
    /\ signed = [s \in Sessions |-> 0]
    /\ finRep = [s \in Sessions |-> None]
    /\ att = [s \in Sessions |-> None]
    /\ wroteAtt = [s \in Sessions |-> FALSE]
    /\ wroteSec = [s \in Sessions |-> FALSE]

Init == limits = [max_sent |-> ProverMaxSent, max_recv |-> ProverMaxRecv] /\ InitRest

InitCfg == limits \in LimitSpace /\ InitRest

(* ---------------- frames ---------------- *)
glob == << limits, loggerInit, fs >>
taskv == << notary, ptask, htask, chanP, chanN, accepted, nerr >>
wire == << reqLen, sentLen, recvLen, chunks, status, exceeded, afterExc >>
hist == << started, joined, commitSet, finCalls, finReq, signed, finRep, att,
           wroteAtt, wroteSec >>

\* Mutation: the Notary's endpoint outlives the task (a clone is kept).
KeepNotarySocket(s) == chanN

\* notary_socket is moved into the Notary task (line 65): when the task ends,
\* by return or by the panic of its unwrap, the endpoint is dropped.
DropNotarySocket(s) == [chanN EXCEPT ![s] = FALSE]

\* prove() goes on to its next step.
Goto(s, p) ==
    /\ pc' = [pc EXCEPT ![s] = p]
    /\ UNCHANGED outcome

\* Mutation: the tasks run on a runtime that outlives prove() and the
\* endpoints are kept alive with it.
EndWith_leak(s, p, o) ==
    /\ pc' = [pc EXCEPT ![s] = p]
    /\ outcome' = [outcome EXCEPT ![s] = o]
    /\ UNCHANGED taskv

\* prove() ends (return or unwinding panic): the Prover and its endpoint are
\* dropped and so is the runtime of #[tokio::main], which cancels every task
\* that is still running.
EndWith(s, p, o) ==
    /\ pc' = [pc EXCEPT ![s] = p]
    /\ outcome' = [outcome EXCEPT ![s] = o]
    /\ chanP' = [chanP EXCEPT ![s] = FALSE]
    /\ chanN' = DropNotarySocket(s)
    /\ notary' = [notary EXCEPT ![s] = IF NotaryLive(s) THEN "cancelled" ELSE @]
    /\ ptask' = [ptask EXCEPT ![s] = IF @ \in {"created", "running"} THEN "cancelled" ELSE @]
    /\ htask' = [htask EXCEPT ![s] = IF @ = "running" THEN "cancelled" ELSE @]
    /\ UNCHANGED << accepted, nerr >>

\* Mutation: an error starts the session over instead of ending prove().
Fail_retry(s, e) == Goto(s, "setup") /\ UNCHANGED taskv

\* `?`: the error is returned from prove().
Fail(s, e) == EndWith(s, "err", e)

(* ---------------- prove(): lines 59-91 ---------------- *)

\* Mutation: try_init() is used and its error dropped.
SubscriberInstalled_ignored == FALSE

\* Line 60: tracing_subscriber::fmt::init() panics when a global subscriber
\* is installed already.
SubscriberInstalled == loggerInit

\* Lines 59-79: install the subscriber (init() panics when one is installed),
\* create the duplex, spawn the Notary, build the Prover's configuration.
Start(s, d, u) ==
    /\ pc[s] = "idle"
    /\ IF SubscriberInstalled
       THEN /\ EndWith(s, "panic", "InitPanic")
            /\ UNCHANGED << glob, wire, hist >>
       ELSE /\ loggerInit' = TRUE
            /\ Goto(s, "setup")
            /\ reqLen' = [reqLen EXCEPT ![s] = RequestLen(d, u)]
            /\ chanP' = [chanP EXCEPT ![s] = TRUE]
            /\ chanN' = [chanN EXCEPT ![s] = TRUE]
            /\ notary' = [notary EXCEPT ![s] = "validating"]
            /\ UNCHANGED << limits, fs, ptask, htask, accepted, nerr, sentLen,
                            recvLen, chunks, status, exceeded, afterExc, hist >>

\* Line 82: Prover::new(config).setup(prover_socket).await?
Setup(s, ok) ==
    /\ pc[s] = "setup"
    /\ \/ /\ ok /\ accepted[s] /\ chanN[s]
          /\ Goto(s, "tcp")
          /\ UNCHANGED taskv
       \/ /\ ~ok \/ ~chanN[s]
          /\ Fail(s, "SetupError")
    /\ UNCHANGED << glob, wire, hist >>

\* Line 85: TcpStream::connect((domain, 443)).await?
TcpConnect(s, ok) ==
    /\ pc[s] = "tcp"
    /\ IF ok THEN Goto(s, "connect") /\ UNCHANGED taskv
             ELSE Fail(s, "ConnectionError")
    /\ UNCHANGED << glob, wire, hist >>

\* Line 91: prover.connect(client_socket).await? returns the connection and
\* the future that advances the protocol.
Connect(s, ok) ==
    /\ pc[s] = "connect"
    /\ IF ok /\ chanN[s]
       THEN /\ Goto(s, "spawn_prover")
            /\ ptask' = [ptask EXCEPT ![s] = "created"]
            /\ UNCHANGED << notary, htask, chanP, chanN, accepted, nerr >>
       ELSE Fail(s, "ProverError")
    /\ UNCHANGED << glob, wire, hist >>

(* ---------------- prove(): lines 95-126 ---------------- *)

\* Mutation: prover_fut is not spawned before the HTTP handshake.
SpawnProver_late(s) ==
    /\ pc[s] = "spawn_prover"
    /\ Goto(s, "handshake")
    /\ UNCHANGED << taskv, glob, wire, hist >>

\* Line 95: tokio::spawn(prover_fut).
SpawnProver(s) ==
    /\ pc[s] = "spawn_prover"
    /\ Goto(s, "handshake")
    /\ ptask' = [ptask EXCEPT ![s] = "running"]
    /\ UNCHANGED << notary, htask, chanP, chanN, accepted, nerr, glob, wire, hist >>

\* Lines 98-99: hyper::client::conn::http1::handshake(..).await?
Handshake(s, ok) ==
    /\ pc[s] = "handshake"
    /\ IF ok THEN Goto(s, "spawn_http") /\ UNCHANGED taskv
             ELSE Fail(s, "HyperError")
    /\ UNCHANGED << glob, wire, hist >>

\* Mutation: the connection future is never spawned.
SpawnHttp_forgot(s, ok) ==
    /\ pc[s] = "spawn_http"
    /\ IF ok THEN Goto(s, "send") /\ UNCHANGED taskv
             ELSE Fail(s, "HttpError")
    /\ UNCHANGED << glob, wire, hist >>

\* Lines 102-116: tokio::spawn(connection), then Request::builder()...body()?
SpawnHttp(s, ok) ==
    /\ pc[s] = "spawn_http"
    /\ IF ok
       THEN /\ Goto(s, "send")
            /\ htask' = [htask EXCEPT ![s] = "running"]
            /\ UNCHANGED << notary, ptask, chanP, chanN, accepted, nerr >>
       ELSE Fail(s, "HttpError")
    /\ UNCHANGED << glob, wire, hist >>

\* Line 119, first half: the request is handed to the connection task; it is
\* refused at once when that task is gone.
SendRequest(s) ==
    /\ pc[s] = "send"
    /\ IF Running(htask[s]) THEN Goto(s, "send_wait") /\ UNCHANGED taskv
                            ELSE Fail(s, "HyperError")
    /\ UNCHANGED << glob, wire, hist >>

\* Line 119, second half: the await ends with the response the connection
\* task read, or with an error when that task has failed without one.
RecvResponse(s) ==
    /\ pc[s] = "send_wait"
    /\ IF htask[s] \in {"running", "done"}
       THEN /\ status[s] # 0
            /\ Goto(s, "assert")
            /\ UNCHANGED taskv
       ELSE Fail(s, "HyperError")
    /\ UNCHANGED << glob, wire, hist >>

\* Mutation: the assertion is missing.
StatusAccepted_any(st) == TRUE

\* Line 123: the status the assertion lets through.
StatusAccepted(st) == st = StatusOK

\* Lines 121-123: assert!(response.status() == StatusCode::OK) panics otherwise.
AssertStatus(s) ==
    /\ pc[s] = "assert"
    /\ IF StatusAccepted(status[s]) THEN Goto(s, "join") /\ UNCHANGED taskv
                                    ELSE EndWith(s, "panic", "AssertPanic")
    /\ UNCHANGED << glob, wire, hist >>

\* Mutation: the result of the join is not looked at.
JoinOk_any(s) == TRUE

\* Line 126: prover_task.await?? yields the Prover only when the task
\* returned Ok; a JoinError or the task's own error is returned by `?`.
JoinOk(s) == ptask[s] = "done"

\* Mutation: prove() goes on without waiting for the task to end.
Join_nowait(s) ==
    /\ pc[s] = "join"
    /\ Goto(s, "start_notarize")
    /\ joined' = [joined EXCEPT ![s] = TRUE]
    /\ UNCHANGED << taskv, glob, wire, started, commitSet, finCalls, finReq,
                    signed, finRep, att, wroteAtt, wroteSec >>

\* Line 126: the await ends when the task has ended.
Join(s) ==
    /\ pc[s] = "join"
    /\ ptask[s] \in {"done", "failed"}
    /\ IF JoinOk(s)
       THEN /\ Goto(s, "start_notarize")
            /\ joined' = [joined EXCEPT ![s] = TRUE]
            /\ UNCHANGED taskv
       ELSE /\ Fail(s, "ProverError")
            /\ UNCHANGED joined
    /\ UNCHANGED << glob, wire, started, commitSet, finCalls, finReq, signed,
                    finRep, att, wroteAtt, wroteSec >>

(* ---------------- prove(): lines 129-162 ---------------- *)

\* Line 129: prover.start_notarize().
StartNotarize(s) ==
    /\ pc[s] = "start_notarize"
    /\ Goto(s, "parse")
    /\ started' = [started EXCEPT ![s] = TRUE]
    /\ UNCHANGED << taskv, glob, wire, joined, commitSet, finCalls, finReq,
                    signed, finRep, att, wroteAtt, wroteSec >>

\* Line 132: HttpTranscript::parse(prover.transcript())?
Parse(s, ok) ==
    /\ pc[s] = "parse"
    /\ IF ok THEN Goto(s, "commit") /\ UNCHANGED taskv
             ELSE Fail(s, "MalformedTranscriptError")
    /\ UNCHANGED << glob, wire, hist >>

\* Lines 135-142: build the commitment (two `?`) and transcript_commit().
Commit(s, ok) ==
    /\ pc[s] = "commit"
    /\ IF ok
       THEN /\ Goto(s, "finalize")
            /\ commitSet' = [commitSet EXCEPT ![s] = TRUE]
            /\ UNCHANGED taskv
       ELSE /\ Fail(s, "CommitError")
            /\ UNCHANGED commitSet
    /\ UNCHANGED << glob, wire, started, joined, finCalls, finReq, signed,
                    finRep, att, wroteAtt, wroteSec >>

\* Line 144, first half: finalize() sends the attestation request, which
\* carries the commitment to this session's transcript.
FinalizeSend(s) ==
    /\ pc[s] = "finalize"
    /\ finCalls' = [finCalls EXCEPT ![s] = @ + 1]
    /\ IF chanN[s]
       THEN /\ Goto(s, "finalize_wait")
            /\ finReq' = [finReq EXCEPT ![s] =
                            [sess |-> s, sent |-> sentLen[s], recv |-> recvLen[s]]]
            /\ UNCHANGED taskv
       ELSE /\ Fail(s, "ProtocolError")
            /\ UNCHANGED finReq
    /\ UNCHANGED << glob, wire, started, joined, commitSet, signed, finRep, att,
                    wroteAtt, wroteSec >>

\* Mutation: the Result of finalize() is not looked at.
FinalizeOk_any(s, ok) == TRUE

\* Mutation: finalize() is called again after an error.
AfterFinalizeErr_retry == "finalize"

\* Line 144: finalize(..).await? is Ok when the signed reply arrived.
FinalizeOk(s, ok) == ok /\ finRep[s] # None

\* Line 144: where `?` sends prove() when finalize() returned an error.
AfterFinalizeErr == "err"

\* Line 144, second half: the await ends with the Notary's reply, or with an
\* error when the Notary is gone or the exchange fails.
FinalizeRecv(s, ok) ==
    /\ pc[s] = "finalize_wait"
    /\ finRep[s] # None \/ ~chanN[s] \/ ~ok
    /\ IF FinalizeOk(s, ok)
       THEN /\ Goto(s, "write_att")
            /\ att' = [att EXCEPT ![s] = finRep[s]]
            /\ finRep' = [finRep EXCEPT ![s] = None]
            /\ UNCHANGED taskv
       ELSE /\ IF AfterFinalizeErr = "err"
               THEN Fail(s, "ProtocolError")
               ELSE Goto(s, AfterFinalizeErr) /\ UNCHANGED taskv
            /\ UNCHANGED << att, finRep >>
    /\ UNCHANGED << glob, wire, started, joined, commitSet, finCalls, finReq,
                    signed, wroteAtt, wroteSec >>

\* Lines 147-150: bincode::serialize(&attestation), of the pair finalize() gave.
AttFileContent(s) == [kind |-> "attestation", of |-> att[s]]

\* Mutation: the attestation is serialized a second time, for the secrets file.
SecFileContent_copy(s) == AttFileContent(s)

\* Line 154: bincode::serialize(&secrets), of the pair finalize() gave.
SecFileContent(s) == [kind |-> "secrets", of |-> att[s]]

\* Mutation: the Result of the first write is dropped.
WriteAtt_ignoreErr(s, ok) ==
    /\ pc[s] = "write_att"
    /\ Goto(s, "write_sec")
    /\ IF ok
       THEN /\ fs' = [fs EXCEPT !.att = AttFileContent(s)]
            /\ wroteAtt' = [wroteAtt EXCEPT ![s] = TRUE]
       ELSE UNCHANGED << fs, wroteAtt >>
    /\ UNCHANGED << taskv, limits, loggerInit, wire, started, joined, commitSet,
                    finCalls, finReq, signed, finRep, att, wroteSec >>

\* Lines 147-151: serialize the attestation and write example.attestation.tlsn.
WriteAtt(s, ok) ==
    /\ pc[s] = "write_att"
    /\ IF ok
       THEN /\ Goto(s, "write_sec")
            /\ fs' = [fs EXCEPT !.att = AttFileContent(s)]
            /\ wroteAtt' = [wroteAtt EXCEPT ![s] = TRUE]
            /\ UNCHANGED taskv
       ELSE /\ Fail(s, "PersistError")
            /\ UNCHANGED << fs, wroteAtt >>
    /\ UNCHANGED << limits, loggerInit, wire, started, joined, commitSet,
                    finCalls, finReq, signed, finRep, att, wroteSec >>

\* Lines 154-162: serialize the secrets, write example.secrets.tlsn, Ok(()).
WriteSec(s, ok) ==
    /\ pc[s] = "write_sec"
    /\ IF ok
       THEN /\ EndWith(s, "ok", "Ok")
            /\ fs' = [fs EXCEPT !.sec = SecFileContent(s)]
            /\ wroteSec' = [wroteSec EXCEPT ![s] = TRUE]
       ELSE /\ Fail(s, "PersistError")
            /\ UNCHANGED << fs, wroteSec >>
    /\ UNCHANGED << limits, loggerInit, wire, started, joined, commitSet,
                    finCalls, finReq, signed, finRep, att, wroteAtt >>

(* ---------------- run_notary(): lines 23-53 ---------------- *)

\* Lines 32-52: the Verifier validates the configuration the Prover proposes
\* in setup(); a rejection is an Err of notarize(), on which unwrap() panics.
NotaryValidate(s) ==
    /\ notary[s] = "validating"
    /\ pc[s] = "setup"
    /\ IF Validate(ProverConfig, NotaryPolicy)
       THEN /\ notary' = [notary EXCEPT ![s] = "mpc"]
            /\ accepted' = [accepted EXCEPT ![s] = TRUE]
            /\ UNCHANGED << chanN, nerr >>
       ELSE /\ notary' = [notary EXCEPT ![s] = "failed"]
            /\ nerr' = [nerr EXCEPT ![s] = "ConfigRejected"]
            /\ chanN' = DropNotarySocket(s)
            /\ UNCHANGED accepted
    /\ UNCHANGED << pc, outcome, ptask, htask, chanP, glob, wire, hist >>

\* Lines 49-52: the TLS session is over, the Notary waits for the request.
NotaryMpcDone(s) ==
    /\ notary[s] = "mpc"
    /\ ptask[s] = "done"
    /\ notary' = [notary EXCEPT ![s] = "await_request"]
    /\ UNCHANGED << pc, outcome, ptask, htask, chanP, chanN, accepted, nerr,
                    glob, wire, hist >>

\* Lines 49-52: the Notary signs the attestation over the commitment it
\* received and returns; the task ends.
NotarySign(s) ==
    /\ notary[s] = "await_request"
    /\ finReq[s] # None
    /\ signed' = [signed EXCEPT ![s] = @ + 1]
    /\ finRep' = [finRep EXCEPT ![s] = finReq[s]]
    /\ finReq' = [finReq EXCEPT ![s] = None]
    /\ notary' = [notary EXCEPT ![s] = "done"]
    /\ chanN' = DropNotarySocket(s)
    /\ UNCHANGED << pc, outcome, ptask, htask, chanP, accepted, nerr, glob, wire,
                    started, joined, commitSet, finCalls, att, wroteAtt, wroteSec >>

\* Lines 49-52: notarize() returns an Err (transport, protocol, signing) and
\* unwrap() panics in the task.
NotaryFail(s) ==
    /\ NotaryLive(s)
    /\ notary' = [notary EXCEPT ![s] = "failed"]
    /\ nerr' = [nerr EXCEPT ![s] = "NotaryError"]
    /\ chanN' = DropNotarySocket(s)
    /\ UNCHANGED << pc, outcome, ptask, htask, chanP, accepted, glob, wire, hist >>

(* ---------------- the task of line 95: prover_fut ---------------- *)

\* The request written by the connection task enters the transcript, unless
\* it would pass max_sent_data: then the engine fails and so does the task.
EngineSend(s) ==
    /\ Running(ptask[s]) /\ Running(htask[s])
    /\ pc[s] = "send_wait"
    /\ sentLen[s] = 0 /\ ~exceeded[s]
    /\ notary[s] = "mpc" /\ chanN[s]
    /\ IF WithinLimit(sentLen[s], reqLen[s], ProverConfig.max_sent)
       THEN /\ sentLen' = [sentLen EXCEPT ![s] = @ + reqLen[s]]
            /\ afterExc' = [afterExc EXCEPT ![s] = @ \/ exceeded[s]]
            /\ UNCHANGED << exceeded, ptask >>
       ELSE /\ exceeded' = [exceeded EXCEPT ![s] = TRUE]
            /\ ptask' = [ptask EXCEPT ![s] = "failed"]
            /\ UNCHANGED << sentLen, afterExc >>
    /\ UNCHANGED << pc, outcome, notary, htask, chanP, chanN, accepted, nerr,
                    glob, reqLen, recvLen, chunks, status, hist >>

\* A record of the server's response enters the transcript, unless it would
\* pass max_recv_data; the first record carries the status line.
EngineRecv(s, st, len) ==
    /\ Running(ptask[s])
    /\ sentLen[s] > 0
    /\ chunks[s] < MaxChunks
    /\ notary[s] = "mpc" /\ chanN[s]
    /\ IF WithinLimit(recvLen[s], len, ProverConfig.max_recv)
       THEN /\ recvLen' = [recvLen EXCEPT ![s] = @ + len]
            /\ chunks' = [chunks EXCEPT ![s] = @ + 1]
            /\ status' = [status EXCEPT ![s] = IF chunks[s] = 0 THEN st ELSE @]
            /\ afterExc' = [afterExc EXCEPT ![s] = @ \/ exceeded[s]]
            /\ UNCHANGED << exceeded, ptask >>
       ELSE /\ exceeded' = [exceeded EXCEPT ![s] = TRUE]
            /\ ptask' = [ptask EXCEPT ![s] = "failed"]
            /\ UNCHANGED << recvLen, chunks, status, afterExc >>
    /\ UNCHANGED << pc, outcome, notary, htask, chanP, chanN, accepted, nerr,
                    glob, reqLen, sentLen, hist >>

\* The TLS connection is closed (by the server after its response, or because
\* the connection task has dropped it) and prover_fut returns Ok(prover).
PtaskDone(s) ==
    /\ Running(ptask[s])
    /\ notary[s] = "mpc" /\ chanN[s]
    /\ chunks[s] >= 1 \/ htask[s] \in {"done", "failed"}
    /\ ptask' = [ptask EXCEPT ![s] = "done"]
    /\ UNCHANGED << pc, outcome, notary, htask, chanP, chanN, accepted, nerr,
                    glob, wire, hist >>

\* prover_fut returns an Err: an I/O or protocol failure.
PtaskFail(s) ==
    /\ Running(ptask[s])
    /\ ptask' = [ptask EXCEPT ![s] = "failed"]
    /\ UNCHANGED << pc, outcome, notary, htask, chanP, chanN, accepted, nerr,
                    glob, wire, hist >>

\* prover_fut returns an Err because the Notary's endpoint is closed.
PtaskChanErr(s) ==
    /\ Running(ptask[s])
    /\ ~chanN[s]
    /\ ptask' = [ptask EXCEPT ![s] = "failed"]
    /\ UNCHANGED << pc, outcome, notary, htask, chanP, chanN, accepted, nerr,
                    glob, wire, hist >>

(* ---------------- the task of line 102: the hyper connection ---------------- *)

\* The connection future ends: Ok once the response has been handed over and
\* the connection shut down, Err on an I/O or protocol failure at any time.
HttpEnd(s, ok) ==
    /\ Running(htask[s])
    /\ ok => pc[s] \notin {"send", "send_wait"}
    /\ htask' = [htask EXCEPT ![s] = IF ok THEN "done" ELSE "failed"]
    /\ UNCHANGED << pc, outcome, notary, ptask, chanP, chanN, accepted, nerr,
                    glob, wire, hist >>

\* The connection future ends because prover_fut is over and the TLS
\* connection with it: an error when a request is still unanswered; a response
\* that has arrived is read before the end of the stream.
HttpConnClosed(s) ==
    /\ Running(htask[s])
    /\ ptask[s] \in {"done", "failed"}
    /\ htask' = [htask EXCEPT ![s] = IF pc[s] = "send_wait" /\ status[s] = 0 THEN "failed" ELSE "done"]
    /\ UNCHANGED << pc, outcome, notary, ptask, chanP, chanN, accepted, nerr,
                    glob, wire, hist >>

(* ---------------- specifications ---------------- *)

\* The steps the runtime takes whenever they are possible.
Progress(s) ==
    \/ Setup(s, TRUE) \/ (\E ok \in BOOLEAN : TcpConnect(s, ok))
    \/ Connect(s, TRUE) \/ SpawnProver(s) \/ Handshake(s, TRUE)
    \/ SpawnHttp(s, TRUE) \/ SendRequest(s) \/ RecvResponse(s)
    \/ AssertStatus(s) \/ Join(s) \/ StartNotarize(s) \/ Parse(s, TRUE)
    \/ Commit(s, TRUE) \/ FinalizeSend(s) \/ FinalizeRecv(s, TRUE)
    \/ WriteAtt(s, TRUE) \/ WriteSec(s, TRUE)
    \/ NotaryValidate(s) \/ NotaryMpcDone(s) \/ NotarySign(s)
    \/ EngineSend(s) \/ PtaskDone(s) \/ PtaskChanErr(s) \/ HttpConnClosed(s)

Next ==
    \E s \in Sessions :
        \/ \E d \in DomainLens, u \in UriLens : Start(s, d, u)
        \/ \E ok \in BOOLEAN : Setup(s, ok)
        \/ \E ok \in BOOLEAN : TcpConnect(s, ok)
        \/ \E ok \in BOOLEAN : Connect(s, ok)
        \/ SpawnProver(s)
        \/ \E ok \in BOOLEAN : Handshake(s, ok)
        \/ \E ok \in BOOLEAN : SpawnHttp(s, ok)
        \/ SendRequest(s)
        \/ RecvResponse(s)
        \/ AssertStatus(s)
        \/ Join(s)
        \/ StartNotarize(s)
        \/ \E ok \in BOOLEAN : Parse(s, ok)
        \/ \E ok \in BOOLEAN : Commit(s, ok)
        \/ FinalizeSend(s)
        \/ \E ok \in BOOLEAN : FinalizeRecv(s, ok)
        \/ \E ok \in BOOLEAN : WriteAtt(s, ok)
        \/ \E ok \in BOOLEAN : WriteSec(s, ok)
        \/ NotaryValidate(s)
        \/ NotaryMpcDone(s)
        \/ NotarySign(s)
        \/ NotaryFail(s)
        \/ EngineSend(s)
        \/ \E st \in Statuses, len \in ChunkLens : EngineRecv(s, st, len)
        \/ PtaskDone(s)
        \/ PtaskFail(s)
        \/ PtaskChanErr(s)
        \/ \E ok \in BOOLEAN : HttpEnd(s, ok)
        \/ HttpConnClosed(s)

\* The reference flow: the limits of lines 75-76.
Spec == Init /\ [][Next]_vars

\* The flow for every configuration of the limits.
SpecCfg == InitCfg /\ [][Next]_vars

\* The reference flow under fair scheduling of prove() and of the tasks.
FairSpec == Init /\ [][Next]_vars /\ \A s \in Sessions : WF_vars(Progress(s))

\* The steps of a run in which no step fails, the Notary included.
ProgressOk(s) ==
    \/ Setup(s, TRUE) \/ TcpConnect(s, TRUE)
    \/ Connect(s, TRUE) \/ SpawnProver(s) \/ Handshake(s, TRUE)
    \/ SpawnHttp(s, TRUE) \/ SendRequest(s) \/ RecvResponse(s)
    \/ AssertStatus(s) \/ Join(s) \/ StartNotarize(s) \/ Parse(s, TRUE)
    \/ Commit(s, TRUE) \/ FinalizeSend(s) \/ FinalizeRecv(s, TRUE)
    \/ WriteAtt(s, TRUE) \/ WriteSec(s, TRUE)
    \/ NotaryValidate(s) \/ NotaryMpcDone(s) \/ NotarySign(s)
    \/ EngineSend(s) \/ PtaskDone(s) \/ HttpConnClosed(s)

\* The server answers the request with status 200.
ServerAnswers(s) == \E len \in ChunkLens : EngineRecv(s, StatusOK, len)

NextOk ==
    \E s \in Sessions :
        \/ \E d \in DomainLens, u \in UriLens : Start(s, d, u)
        \/ ProgressOk(s)
        \/ ServerAnswers(s)
        \/ HttpEnd(s, TRUE)

\* The reference flow when no step fails and the server answers 200, under
\* fair scheduling of prove(), of the tasks and of the server's answers.
OkSpec ==
    /\ Init /\ [][NextOk]_vars
    /\ \A s \in Sessions : WF_vars(ProgressOk(s)) /\ WF_vars(ServerAnswers(s))

(* ---------------- properties ---------------- *)

TaskFailed(s) ==
    notary[s] = "failed" \/ ptask[s] = "failed" \/ htask[s] = "failed"

BadStatus(s) == status[s] # 0 /\ status[s] # StatusOK

\* C1: start_notarize() has run only if the background prover task has
\* terminated and its join returned Ok; it never runs while the task is
\* still running or after it failed.
C1_NotarizeAfterJoin ==
    \A s \in Sessions : started[s] => joined[s] /\ ptask[s] = "done"

C1_Witness == \E s \in Sessions : started[s] /\ pc[s] = "parse"

\* C2: a session whose response status is not 200 never enters notarization:
\* no start_notarize, transcript_commit or finalize, no attestation signed by
\* the Notary, no artifact file written.
C2_NoNotarizationOnBadStatus ==
    \A s \in Sessions :
        BadStatus(s) =>
            /\ ~started[s] /\ ~commitSet[s] /\ finCalls[s] = 0
            /\ signed[s] = 0 /\ att[s] = None
            /\ ~wroteAtt[s] /\ ~wroteSec[s]

C2_Witness == \E s \in Sessions : BadStatus(s) /\ outcome[s] = "AssertPanic"

\* C3: a non-200 status is returned to the caller as an error value; prove()
\* does not abort on it.
C3_BadStatusIsReturnedError ==
    \A s \in Sessions : (BadStatus(s) /\ Ended(s)) => pc[s] = "err"

\* C4: an artifact file written by a session implies that the session's
\* finalize() call has returned Ok; a session that fails up to and including
\* finalize() writes no file.
C4_FilesOnlyAfterFinalize ==
    \A s \in Sessions :
        /\ (wroteAtt[s] \/ wroteSec[s]) => (att[s] # None /\ finCalls[s] >= 1)
        /\ (pc[s] = "err" /\ att[s] = None) => (~wroteAtt[s] /\ ~wroteSec[s])

C4_Witness == \E s \in Sessions : wroteAtt[s] /\ wroteSec[s] /\ pc[s] = "ok"

\* C5: under fair scheduling, once one of the three tasks has failed, prove()
\* does not stay blocked: it eventually ends.
C5_FailureUnblocksProve ==
    \A s \in Sessions : TaskFailed(s) ~> Ended(s)

C5_Witness ==
    \E s \in Sessions : notary[s] = "failed" /\ outcome[s] = "SetupError"

\* C6: prove() returns Ok only if none of the Notary task, the background
\* prover task and the HTTP connection task has failed.
C6_OkOnlyIfNoTaskFailed ==
    \A s \in Sessions : pc[s] = "ok" => ~TaskFailed(s)

PState(s) ==
    IF att[s] # None THEN "Finalized"
    ELSE CASE pc[s] = "idle" -> "Idle"
           [] pc[s] \in {"setup", "tcp", "connect"} -> "SettingUp"
           [] pc[s] \in {"spawn_prover", "handshake", "spawn_http", "send",
                         "send_wait", "assert", "join", "start_notarize"} -> "Connected"
           [] pc[s] \in {"parse", "commit", "finalize", "finalize_wait"} -> "Notarizing"
           [] pc[s] \in {"err", "panic"} -> "Failed"
           [] OTHER -> "Finalized"

Successor(a) ==
    CASE a = "Idle" -> "SettingUp"
      [] a = "SettingUp" -> "Connected"
      [] a = "Connected" -> "Notarizing"
      [] a = "Notarizing" -> "Finalized"
      [] OTHER -> a

ForwardStep(a, b) ==
    \/ a = b
    \/ a \notin {"Finalized", "Failed"} /\ (b = Successor(a) \/ b = "Failed")

\* C11: the Prover session state only moves one step forward along
\* Idle, SettingUp, Connected, Notarizing, Finalized, or from a non-terminal
\* state to Failed; Finalized and Failed are never left.
C11_StateMovesForward ==
    [][\A s \in Sessions : ForwardStep(PState(s), PState(s)')]_vars

C11_Witness ==
    \E s \in Sessions : PState(s) = "Finalized" /\ outcome[s] = "PersistError"

\* C12: prove() has returned Ok only if the session wrote both artifact
\* files, the attestation file holding the attestation and the secrets file
\* the secrets of the session's single finalize() call.
C12_OkMeansBothFiles ==
    \A s \in Sessions :
        pc[s] = "ok" =>
            /\ status[s] = StatusOK
            /\ wroteAtt[s] /\ wroteSec[s]
            /\ att[s] # None /\ finCalls[s] = 1
            /\ fs.att = [kind |-> "attestation", of |-> att[s]]
            /\ fs.sec = [kind |-> "secrets", of |-> att[s]]

C12_Witness ==
    \E s \in Sessions : pc[s] = "ok" /\ ~TaskFailed(s) /\ fs.sec.kind = "secrets"

C14_ProverTaskSpawnedFirst ==
    \A s \in Sessions :
        pc[s] \in {"handshake", "spawn_http", "send", "send_wait"} =>
            ptask[s] \in {"running", "done", "failed"}

C14_Witness ==
    \E s \in Sessions : pc[s] = "send_wait" /\ Running(ptask[s]) /\ sentLen[s] = 0

\* C15: when the server answers 200 and no step fails, a session that has
\* started its setup eventually has its background task joined, is Finalized
\* and prove() has returned Ok (unless the exchange passes a limit, which
\* fails the background task).
C15_SessionCompletes ==
    \A s \in Sessions :
        pc[s] = "setup" ~>
            \/ pc[s] = "ok" /\ joined[s] /\ ptask[s] = "done" /\ PState(s) = "Finalized"
            \/ exceeded[s]

C15_Witness ==
    \E s \in Sessions : pc[s] = "ok" /\ joined[s] /\ recvLen[s] = ProverMaxRecv

Transcript(s) == [sess |-> s, sent |-> sentLen[s], recv |-> recvLen[s]]

\* C16: once the background task has been joined the transcript does not
\* change, and the request sent to the Notary, its reply and the attestation
\* returned all refer to exactly that transcript.
C16_TranscriptFrozen ==
    [][\A s \in Sessions :
          /\ joined[s] => (sentLen'[s] = sentLen[s] /\ recvLen'[s] = recvLen[s])
          /\ finReq'[s] # None => (joined'[s] /\ finReq'[s] = Transcript(s)')
          /\ finRep'[s] # None => finRep'[s] = Transcript(s)'
          /\ att'[s] # None => att'[s] = Transcript(s)']_vars

C16_Witness ==
    \E s \in Sessions : joined[s] /\ finReq[s] = Transcript(s) /\ chunks[s] < MaxChunks

\* C17: a session has written the secrets file only if it has written the
\* attestation file; when the attestation write fails the secrets file is
\* not written and prove() returns the error; secrets on disk are never
\* those of a session whose attestation is not on disk.
C17_SecretsAfterAttestation ==
    \A s \in Sessions :
        /\ wroteSec[s] => wroteAtt[s]
        /\ pc[s] = "write_sec" => wroteAtt[s]
        /\ (outcome[s] = "PersistError" /\ ~wroteAtt[s]) =>
              (pc[s] = "err" /\ ~wroteSec[s] /\ fs.sec.kind = "none")
        /\ fs.sec.of.sess = s => fs.att.of.sess = s

C17_Witness ==
    \E s \in Sessions :
        outcome[s] = "PersistError" /\ wroteAtt[s] /\ ~wroteSec[s]
        /\ fs.att.kind = "attestation" /\ fs.sec.kind = "none"

\* C18: once prove() has ended, by return, error or panic, the Prover's
\* endpoint is closed and the Notary task is no longer waiting.
C18_NotaryNotLeftWaiting ==
    \A s \in Sessions : Ended(s) => (~chanP[s] /\ ~NotaryLive(s))

C18_Witness ==
    \E s \in Sessions : outcome[s] = "ConnectionError" /\ notary[s] = "cancelled"

PcOrder ==
    << "idle", "setup", "tcp", "connect", "spawn_prover", "handshake",
       "spawn_http", "send", "send_wait", "assert", "join", "start_notarize",
       "parse", "commit", "finalize", "finalize_wait", "write_att", "write_sec" >>

Rank(p) ==
    IF p \in {"ok", "err", "panic"} THEN Len(PcOrder) + 1
    ELSE CHOOSE i \in 1..Len(PcOrder) : PcOrder[i] = p

\* C19: prove() only moves forward through its steps, so each is attempted
\* at most once; one request at most enters the transcript; a step that
\* returns an error ends prove() with that error and nothing of the session
\* runs afterwards.
C19_FailStopNoRetry ==
    [][\A s \in Sessions :
          /\ pc'[s] # pc[s] => Rank(pc'[s]) > Rank(pc[s])
          /\ sentLen'[s] \in {0, reqLen'[s]}
          /\ finCalls'[s] <= 1
          /\ pc'[s] = "err" => outcome'[s] \notin {"", "Ok"}
          /\ Ended(s) =>
                /\ pc'[s] = pc[s] /\ outcome'[s] = outcome[s]
                /\ started'[s] = started[s] /\ commitSet'[s] = commitSet[s]
                /\ finCalls'[s] = finCalls[s] /\ att'[s] = att[s]
                /\ wroteAtt'[s] = wroteAtt[s] /\ wroteSec'[s] = wroteSec[s]
                /\ sentLen'[s] = sentLen[s] /\ recvLen'[s] = recvLen[s]]_vars

C19_Witness ==
    \E s \in Sessions :
        outcome[s] = "MalformedTranscriptError" /\ finCalls[s] = 0 /\ ~wroteAtt[s]

\* C20: a call of prove() made when an earlier call of the process has
\* completed starts its session as a first call does.
C20_LaterCallLikeFirst ==
    [][\A s, r \in Sessions :
          (pc[s] = "idle" /\ Ended(r) /\ pc'[s] # "idle") => pc'[s] = "setup"]_vars
====
